---------------------------- MODULE Spec2Model ----------------------------
(***************************************************************************)
(* Resource lifecycle and scheduling of the VPS bot (src/bot.py).          *)
(*                                                                         *)
(* The bot runs on one asyncio event loop: a handler or task runs without  *)
(* interruption from one `await` to the next, so every action below is one *)
(* such segment of a handler (or the whole handler when nothing it awaits  *)
(* lies between its reads and writes of the shared maps).                  *)
(*                                                                         *)
(* Time is counted in units of 72 hours: the code's 3 * 24 * 3600 and      *)
(* 72 * 3600 seconds are both one unit here.  Resource ids are the decimal *)
(* strings "1", "2", ... in the code; the model writes them as the numbers *)
(* they denote.                                                            *)
(* A missing optional field (trial_expires, message_id) is 0, which the    *)
(* code's truth tests (`if end_ts:`, `if not msg_id`) treat like None.     *)
(***************************************************************************)
EXTENDS Integers, Sequences, FiniteSets, Bags, TLC

\* ------------------------------------------------------------------ bounds
MaxTime == 2
MaxVid == 2
MaxViews == 2
MaxTimers == 1
MaxGiveaways == 1
MaxGTasks == 2
MaxDuration == 1
MaxSweeps == 1
MaxProtections == 1
MaxCredits == 1500
MaxProvisions == 2

\* ------------------------------------------------------- program constants
TrialPeriod == 1
ProtectPeriod == 1
PurgeWindow == 1
TrialCredits == 10
BasicCost == 150
ProCost == 300
GambleDouble == 2
GambleJackpot == 10

Users == {"u1", "u2"}
NoUser == "nobody"

VARIABLES
    now,        \* int(datetime.now(timezone.utc).timestamp()), in units of 72 h
    users,      \* USER_DB["users"]: account id -> record
    vps,        \* VPS_DATA["vps"]: resource id -> record
    purge,      \* VPS_DATA["purge"]
    protected,  \* purge_protected.json "protected": the ProtectionRecords
    giveaways,  \* GIVEAWAYS["giveaways"]: message id -> record
    timers,     \* pending schedule_trial_expiry tasks (a bag)
    gtasks,     \* finalize_giveaway_by_id tasks, with their local variables
    ptasks,     \* purge_start handlers and schedule_purge_expiry tasks
    selfViews,  \* open ConfirmSelfClaim prompts, per requester
    grantViews, \* open ConfirmTrialView prompts, per target
    reply,      \* the last answer of the trial command or its buttons
    nextMsg,    \* the next message id the chat platform hands out
    issued,     \* history: the ids create_vps_record has returned so far
    prov,       \* container provisioning: backend, tasks, metadata per record
    disk,       \* users.json, vps.json and giveaways.json as last written
    notices,    \* finalize_trial_vps past its writes: the owner's notification
    maintenance \* VPS_DATA["maintenance"]

vars == <<now, users, vps, purge, protected, giveaways, timers, gtasks,
          ptasks, selfViews, grantViews, reply, nextMsg, issued, prov, disk,
          notices, maintenance>>

\* ----------------------------------------------------------------- helpers
Put(f, k, v) == [x \in DOMAIN f \cup {k} |-> IF x = k THEN v ELSE f[x]]

Drop(f, k) == [x \in DOMAIN f \ {k} |-> f[x]]

Max(S) == CHOOSE m \in S : \A x \in S : x <= m

One(e) == SetToBag({e})

\* The confirmation prompts open at once (the model's cap on them).
RECURSIVE SumOver(_, _)
SumOver(f, S) ==
    IF S = {} THEN 0
    ELSE LET x == CHOOSE y \in S : TRUE IN f[x] + SumOver(f, S \ {x})

OpenViews == SumOver(selfViews, Users) + SumOver(grantViews, Users)

\* USER_DB["users"][uid].get("credits", 0)
Credits(db, u) == IF u \in DOMAIN db THEN db[u].credits ELSE 0

NewUser == [credits |-> 0, trial_claimed |-> FALSE, trial_active |-> FALSE]

\* The record written whether or not the account has one.
ensure_user_record_overwriting(db, u) == Put(db, u, NewUser)

ensure_user_record(db, u) == IF u \in DOMAIN db THEN db ELSE Put(db, u, NewUser)

\* The next id taken from the number of live resources, not from their maximum.
get_next_vps_id_count(v) == Cardinality(DOMAIN v) + 1

get_next_vps_id(v) == IF DOMAIN v = {} THEN 1 ELSE Max(DOMAIN v) + 1

create_vps_record(v, owner) ==
    Put(v, get_next_vps_id(v),
        [owner |-> owner, status |-> "active", trial_expires |-> 0])

\* A schedule_trial_expiry(vid, end_ts) task in its sleep.  It sleeps
\* max(0, end_ts - t) from the time t it starts at, so it wakes once the clock
\* has reached both t and end_ts: at any time from end_ts on.  owner is not
\* an argument of the task: it records whose trial the task was armed for.
TrialTimer(vid, end_ts, owner) ==
    [vid |-> vid, end_ts |-> end_ts, owner |-> owner]

\* ----------------------------------------------------------------- documents
\* The documents on disk.  vps.json holds VPS_DATA whole, the purge window
\* with the resources.  A process whose documents are not followed has
\* NoDisk throughout; purge_protected.json is the variable protected itself.
NoDisk ==
    [tracked |-> FALSE, users |-> <<>>, vps |-> <<>>, purge |-> <<>>, giveaways |-> <<>>]

\* save_user_db, save_vps_data and save_giveaways, called for the documents
\* in docs once the handler's assignments are made: each dumps its map whole.
Written(docs) ==
    disk' = IF ~disk.tracked THEN disk
            ELSE [tracked |-> TRUE,
                  users |-> IF "users" \in docs THEN users' ELSE disk.users,
                  vps |-> IF "vps" \in docs THEN vps' ELSE disk.vps,
                  purge |-> IF "vps" \in docs THEN purge' ELSE disk.purge,
                  giveaways |-> IF "giveaways" \in docs THEN giveaways'
                                ELSE disk.giveaways]

\* ------------------------------------------------------------ notifications
\* finalize_trial_vps past line 386: the resolver fetches the owner, sends the
\* notice and logs.  A process whose resolvers are not followed past their
\* writes has NoNotices throughout.
NoNotices == [tracked |-> FALSE, q |-> <<>>]

\* The resolver has removed resource vid and goes on to bot.fetch_user; when it
\* found no record it has returned at line 370.
Expired(n, vid) ==
    IF ~n.tracked \/ vid \notin DOMAIN vps THEN n
    ELSE [n EXCEPT !.q = Append(@, [vid |-> vid, owner |-> vps[vid].owner,
                                    pc |-> "fetch", sent |-> FALSE])]

\* ------------------------------------------------------------ provisioning
\* A record of VPS_DATA["vps"] is a dict object: a provisioning task that has
\* looked its record up holds that object, whatever the store holds
\* afterwards.  serial numbers the records create_vps_record has made under a
\* backend, obj[vid] is the record last stored under vid (the store's record
\* while vid is in it), meta[s] is what the provisioning fields of record s
\* say: "none" before any write, "provisioned" after provisioned = True with
\* the container's name and state, "failed" after provisioned = False with
\* the error.
Backends == {"docker", "lxd"}

NoProvisioning ==
    [backend |-> "none", serial |-> 0, obj |-> <<>>, tasks |-> <<>>, meta |-> <<>>]

ProvisionRoom == prov.backend = "none" \/ prov.serial < MaxProvisions

\* create_vps_record past save_vps_data: the task of the enabled backend,
\* started for the record just made.
StartProvision(p, vid) ==
    IF p.backend = "none" THEN p
    ELSE [backend |-> p.backend,
          serial |-> p.serial + 1,
          obj |-> Put(p.obj, vid, p.serial + 1),
          tasks |-> Append(p.tasks, [vid |-> vid, for |-> p.serial + 1,
                                     pc |-> "start", v |-> 0]),
          meta |-> Put(p.meta, p.serial + 1, "none")]

\* ------------------------------------------------------------------- clock
Tick ==
    /\ now < MaxTime
    /\ now' = now + 1
    /\ UNCHANGED <<users, vps, purge, protected, giveaways, timers, gtasks,
                   ptasks, selfViews, grantViews, reply, nextMsg, issued, prov,
                   notices, maintenance>>
    /\ Written({})

\* The body of a claim that creates no expiry task.
StartTrial_unarmed(u) ==
    LET db1 == ensure_user_record(users, u)
        vid == get_next_vps_id(vps)
        end == now + TrialPeriod
        v1 == create_vps_record(vps, u)
    IN  /\ vid <= MaxVid
        /\ BagCardinality(timers) < MaxTimers
        /\ ProvisionRoom
        /\ vps' = [v1 EXCEPT ![vid].trial_expires = end, ![vid].status = "trial"]
        /\ users' = [db1 EXCEPT ![u].trial_claimed = TRUE,
                                ![u].trial_active = TRUE,
                                ![u].credits = db1[u].credits + TrialCredits]
        /\ timers' = timers
        /\ issued' = issued \cup {vid}
        /\ prov' = StartProvision(prov, vid)
        /\ reply' = "granted"

\* ------------------------------------------------------------------ trials
\* The body of a successful claim, in the order of ConfirmSelfClaim.claim.
StartTrial(u) ==
    LET db1 == ensure_user_record(users, u)
        vid == get_next_vps_id(vps)
        end == now + TrialPeriod
        v1 == create_vps_record(vps, u)
    IN  /\ vid <= MaxVid
        /\ BagCardinality(timers) < MaxTimers
        /\ ProvisionRoom
        /\ vps' = [v1 EXCEPT ![vid].trial_expires = end, ![vid].status = "trial"]
        /\ users' = [db1 EXCEPT ![u].trial_claimed = TRUE,
                                ![u].trial_active = TRUE,
                                ![u].credits = db1[u].credits + TrialCredits]
        /\ timers' = timers (+) One(TrialTimer(vid, end, u))
        /\ issued' = issued \cup {vid}
        /\ prov' = StartProvision(prov, vid)
        /\ reply' = "granted"

\* .trial without a mention: the self-claim flow up to the prompt.
TrialCommand(u) ==
    LET db1 == ensure_user_record(users, u)
    IN  /\ users' = db1
        /\ IF db1[u].trial_claimed
           THEN /\ reply' = "already claimed"
                /\ UNCHANGED selfViews
           ELSE /\ OpenViews < MaxViews
                /\ selfViews' = [selfViews EXCEPT ![u] = @ + 1]
                /\ reply' = "prompt"
        /\ UNCHANGED <<now, vps, purge, protected, giveaways, timers, gtasks,
                       ptasks, grantViews, nextMsg, issued, prov, notices,
                       maintenance>>
        /\ Written({"users"})

\* The "Claim Trial" button of an open prompt.
ClaimClick(u) ==
    /\ selfViews[u] > 0
    /\ selfViews' = [selfViews EXCEPT ![u] = @ - 1]
    /\ StartTrial(u)
    /\ UNCHANGED <<now, purge, protected, giveaways, gtasks, ptasks,
                   grantViews, nextMsg, notices, maintenance>>
    /\ Written(IF vps' = vps THEN {"users"} ELSE {"users", "vps"})

\* .trial @member by the owner: only sends the prompt.
GrantCommand(u) ==
    /\ OpenViews < MaxViews
    /\ grantViews' = [grantViews EXCEPT ![u] = @ + 1]
    /\ reply' = "prompt"
    /\ UNCHANGED <<now, users, vps, purge, protected, giveaways, timers,
                   gtasks, ptasks, selfViews, nextMsg, issued, prov, notices,
                   maintenance>>
    /\ Written({})

\* The "Confirm Grant" button with its trial_claimed test (line 1014) left out.
GrantConfirmUnchecked(u) ==
    /\ grantViews[u] > 0
    /\ grantViews' = [grantViews EXCEPT ![u] = @ - 1]
    /\ StartTrial(u)
    /\ UNCHANGED <<now, purge, protected, giveaways, gtasks, ptasks,
                   selfViews, nextMsg, notices, maintenance>>
    /\ Written({"users", "vps"})

\* The "Confirm Grant" button.
GrantConfirm(u) ==
    LET db1 == ensure_user_record(users, u)
    IN  /\ grantViews[u] > 0
        /\ grantViews' = [grantViews EXCEPT ![u] = @ - 1]
        /\ IF db1[u].trial_claimed
           THEN /\ users' = db1
                /\ reply' = "already claimed"
                /\ UNCHANGED <<vps, timers, issued, prov>>
           ELSE StartTrial(u)
        /\ UNCHANGED <<now, purge, protected, giveaways, gtasks, ptasks,
                       selfViews, nextMsg, notices, maintenance>>
        /\ Written(IF vps' = vps THEN {"users"} ELSE {"users", "vps"})

\* finalize_trial_vps up to its first await: lines 368-380 run in one piece.
finalize_trial_vps(vid) ==
    IF vid \notin DOMAIN vps
    THEN UNCHANGED <<vps, users>>
    ELSE LET owner == vps[vid].owner
             db1 == ensure_user_record(users, owner)
         IN  /\ vps' = Drop(vps, vid)
             /\ users' = [db1 EXCEPT ![owner].trial_active = FALSE]

\* The resolver with its two save calls left out.
TimerFire_unsaved(t) ==
    /\ BagIn(t, timers)
    /\ now >= t.end_ts
    /\ timers' = timers (-) One(t)
    /\ finalize_trial_vps(t.vid)
    /\ UNCHANGED <<now, purge, protected, giveaways, gtasks, ptasks,
                   selfViews, grantViews, reply, nextMsg, issued, prov,
                   maintenance>>
    /\ notices' = Expired(notices, t.vid)
    /\ Written({})

\* A schedule_trial_expiry task wakes from its sleep and runs the resolver.
TimerFire(t) ==
    /\ BagIn(t, timers)
    /\ now >= t.end_ts
    /\ timers' = timers (-) One(t)
    /\ finalize_trial_vps(t.vid)
    /\ UNCHANGED <<now, purge, protected, giveaways, gtasks, ptasks,
                   selfViews, grantViews, reply, nextMsg, issued, prov,
                   maintenance>>
    /\ notices' = Expired(notices, t.vid)
    /\ Written(IF t.vid \in DOMAIN vps THEN {"users", "vps"} ELSE {})

\* ConfirmView.confirm: the deletion button of deletevps (and of "reinstall").
ConfirmDelete(vid) ==
    /\ vid \in DOMAIN vps
    /\ vps' = Drop(vps, vid)
    /\ UNCHANGED <<now, users, purge, protected, giveaways, timers, gtasks,
                   ptasks, selfViews, grantViews, reply, nextMsg, issued, prov,
                   notices, maintenance>>
    /\ Written({"vps"})

\* ConfirmDeleteAll.confirm
ConfirmDeleteAll ==
    /\ vps # <<>>
    /\ vps' = <<>>
    /\ UNCHANGED <<now, users, purge, protected, giveaways, timers, gtasks,
                   ptasks, selfViews, grantViews, reply, nextMsg, issued, prov,
                   notices, maintenance>>
    /\ Written({"vps"})

\* .cleardb users | vps
clear_db(which) ==
    /\ \/ which = "users" /\ users # <<>> /\ users' = <<>> /\ UNCHANGED vps
       \/ which = "vps" /\ vps # <<>> /\ vps' = <<>> /\ UNCHANGED users
    /\ UNCHANGED <<now, purge, protected, giveaways, timers, gtasks, ptasks,
                   selfViews, grantViews, reply, nextMsg, issued, prov,
                   notices, maintenance>>
    /\ Written({which})

\* ---------------------------------------------------------------- giveaways
Amounts == {5}

NewGTask(gid) ==
    [gid |-> gid, pc |-> "start", amount |-> 0, msg |-> FALSE,
     participants |-> {}, winner |-> NoUser]

\* The ids of a map in the order list(d.items()) yields them: insertion
\* order, which for both maps is ascending (every new id exceeds the live ones).
RECURSIVE Ascending(_)
Ascending(S) ==
    IF S = {} THEN <<>>
    ELSE LET m == Max(S) IN Append(Ascending(S \ {m}), m)

RECURSIVE MapSeq(_, _)
MapSeq(F(_), q) ==
    IF q = <<>> THEN <<>> ELSE <<F(Head(q))>> \o MapSeq(F, Tail(q))

RECURSIVE SeqToBag(_)
SeqToBag(q) == IF q = <<>> THEN EmptyBag ELSE One(Head(q)) (+) SeqToBag(Tail(q))

\* .giveawayc <channel> <amount> <duration>: the announcement is sent, the
\* record stored under the message id and the finalize task created.
giveaway_credits(amount, secs) ==
    /\ nextMsg <= MaxGiveaways
    /\ Len(gtasks) < MaxGTasks
    /\ giveaways' = Put(giveaways, nextMsg, [end_ts |-> now + secs, amount |-> amount])
    /\ gtasks' = Append(gtasks, NewGTask(nextMsg))
    /\ nextMsg' = nextMsg + 1
    /\ UNCHANGED <<now, users, vps, purge, protected, timers, ptasks,
                   selfViews, grantViews, reply, issued, prov, notices,
                   maintenance>>
    /\ Written({"giveaways"})

\* finalize_giveaway_by_id going on to the fetch whether or not the record is
\* there.
GwStart_unchecked(i) ==
    /\ gtasks[i].pc = "start"
    /\ gtasks' = [gtasks EXCEPT ![i].pc = "fetch",
                                ![i].amount =
                                    IF gtasks[i].gid \in DOMAIN giveaways
                                    THEN giveaways[gtasks[i].gid].amount ELSE 0]
    /\ UNCHANGED <<now, users, vps, purge, protected, giveaways, timers,
                   ptasks, selfViews, grantViews, reply, nextMsg, issued, prov,
                   notices, maintenance>>
    /\ Written({})

\* finalize_giveaway_by_id, lines 309-317: look the record up, start the fetch.
GwStart(i) ==
    /\ gtasks[i].pc = "start"
    /\ IF gtasks[i].gid \notin DOMAIN giveaways
       THEN gtasks' = [gtasks EXCEPT ![i].pc = "done"]
       ELSE gtasks' = [gtasks EXCEPT ![i].pc = "fetch",
                                     ![i].amount = giveaways[gtasks[i].gid].amount]
    /\ UNCHANGED <<now, users, vps, purge, protected, giveaways, timers,
                   ptasks, selfViews, grantViews, reply, nextMsg, issued, prov,
                   notices, maintenance>>
    /\ Written({})

\* The failed fetch leaving the record in place for a later attempt.
GwFetched_keeps_record(i, ok, reacted) ==
    /\ gtasks[i].pc = "fetch"
    /\ gtasks' = IF ~ok THEN [gtasks EXCEPT ![i].pc = "done"]
                 ELSE [gtasks EXCEPT ![i].msg = TRUE,
                          ![i].pc = IF reacted THEN "users" ELSE "edit"]
    /\ UNCHANGED <<now, users, vps, purge, protected, giveaways, timers, ptasks,
                   selfViews, grantViews, reply, nextMsg, issued, prov,
                   notices, maintenance>>
    /\ Written({})

\* Lines 317-330: the fetch fails (the record is dropped), or returns a message
\* with or without a reaction of the giveaway's emoji on it.
GwFetched(i, ok, reacted) ==
    /\ gtasks[i].pc = "fetch"
    /\ IF ~ok
       THEN /\ giveaways' = Drop(giveaways, gtasks[i].gid)
            /\ gtasks' = [gtasks EXCEPT ![i].pc = "done"]
       ELSE /\ gtasks' = [gtasks EXCEPT ![i].msg = TRUE,
                              ![i].pc = IF reacted THEN "users" ELSE "edit"]
            /\ UNCHANGED giveaways
    /\ UNCHANGED <<now, users, vps, purge, protected, timers, ptasks,
                   selfViews, grantViews, reply, nextMsg, issued, prov,
                   notices, maintenance>>
    /\ Written(IF ok THEN {} ELSE {"giveaways"})

\* The award of lines 335-341 made to every participant, not to the one drawn.
GwUsersAwardAll(i, S) ==
    /\ gtasks[i].pc = "users"
    /\ users' = [u \in DOMAIN users \cup S |->
                   IF u \in S
                   THEN [ensure_user_record(users, u)[u] EXCEPT
                            !.credits = @ + gtasks[i].amount]
                   ELSE users[u]]
    /\ gtasks' = [gtasks EXCEPT ![i].pc = "edit",
                                ![i].participants = S,
                                ![i].winner = IF S = {} THEN NoUser
                                              ELSE CHOOSE w \in S : TRUE]
    /\ UNCHANGED <<now, vps, purge, protected, giveaways, timers, ptasks,
                   selfViews, grantViews, reply, nextMsg, issued, prov,
                   notices, maintenance>>
    /\ Written({"users"})

\* Lines 328-356: the reactors arrive; S is those that are not bots.
GwUsers(i, S) ==
    /\ gtasks[i].pc = "users"
    /\ IF S = {}
       THEN /\ gtasks' = [gtasks EXCEPT ![i].pc = "edit"]
            /\ UNCHANGED users
       ELSE \E w \in S :
            LET db1 == ensure_user_record(users, w)
            IN  /\ users' = [db1 EXCEPT ![w].credits = @ + gtasks[i].amount]
                /\ gtasks' = [gtasks EXCEPT ![i].pc = "edit",
                                            ![i].participants = S,
                                            ![i].winner = w]
    /\ UNCHANGED <<now, vps, purge, protected, giveaways, timers, ptasks,
                   selfViews, grantViews, reply, nextMsg, issued, prov,
                   notices, maintenance>>
    /\ Written({"users"})

\* Line 328: enumerating the reactors raises; nothing catches it.
GwUsersFail(i) ==
    /\ gtasks[i].pc = "users"
    /\ gtasks' = [gtasks EXCEPT ![i].pc = "failed"]
    /\ UNCHANGED <<now, users, vps, purge, protected, giveaways, timers,
                   ptasks, selfViews, grantViews, reply, nextMsg, issued, prov,
                   notices, maintenance>>
    /\ Written({})

\* Lines 356-360: the edit returns or raises (swallowed); the log call starts.
GwEdited(i) ==
    /\ gtasks[i].pc = "edit"
    /\ gtasks' = [gtasks EXCEPT ![i].pc = "log"]
    /\ UNCHANGED <<now, users, vps, purge, protected, giveaways, timers,
                   ptasks, selfViews, grantViews, reply, nextMsg, issued, prov,
                   notices, maintenance>>
    /\ Written({})

\* The removal of lines 362-363 made only when a winner was drawn.
GwLoggedKeepsUnwon(i) ==
    /\ gtasks[i].pc = "log"
    /\ giveaways' = IF gtasks[i].winner = NoUser THEN giveaways
                    ELSE Drop(giveaways, gtasks[i].gid)
    /\ gtasks' = [gtasks EXCEPT ![i].pc = "done"]
    /\ UNCHANGED <<now, users, vps, purge, protected, timers, ptasks,
                   selfViews, grantViews, reply, nextMsg, issued, prov,
                   notices, maintenance>>
    /\ Written({"giveaways"})

\* Lines 360-363: log_action returns; the record is removed.
GwLogged(i) ==
    /\ gtasks[i].pc = "log"
    /\ giveaways' = Drop(giveaways, gtasks[i].gid)
    /\ gtasks' = [gtasks EXCEPT ![i].pc = "done"]
    /\ UNCHANGED <<now, users, vps, purge, protected, timers, ptasks,
                   selfViews, grantViews, reply, nextMsg, issued, prov,
                   notices, maintenance>>
    /\ Written({"giveaways"})

\* ------------------------------------------------------------------- purge
Bot == "bot"

ExplicitProtections ==
    Cardinality(purge.protected_users) + Cardinality(purge.protected_vps)

\* .create @user <cpu> <ram> <storage>
create_custom_vps(u) ==
    /\ ~maintenance
    /\ get_next_vps_id(vps) <= MaxVid
    /\ ProvisionRoom
    /\ users' = ensure_user_record(users, u)
    /\ vps' = create_vps_record(vps, u)
    /\ issued' = issued \cup {get_next_vps_id(vps)}
    /\ prov' = StartProvision(prov, get_next_vps_id(vps))
    /\ UNCHANGED <<now, purge, protected, giveaways, timers, gtasks, ptasks,
                   selfViews, grantViews, reply, nextMsg, notices,
                   maintenance>>
    /\ Written({"users", "vps"})

\* .dontpurgevps <@user>
dont_purge_user(u) ==
    /\ ExplicitProtections < MaxProtections
    /\ purge' = [purge EXCEPT !.protected_users = @ \cup {u}]
    /\ UNCHANGED <<now, users, vps, protected, giveaways, timers, gtasks,
                   ptasks, selfViews, grantViews, reply, nextMsg, issued, prov,
                   notices, maintenance>>
    /\ Written({"vps"})

\* .dontpurgevps <vps id>
dont_purge_vps(vid) ==
    /\ ExplicitProtections < MaxProtections
    /\ purge' = [purge EXCEPT !.protected_vps = @ \cup {vid}]
    /\ UNCHANGED <<now, users, vps, protected, giveaways, timers, gtasks,
                   ptasks, selfViews, grantViews, reply, nextMsg, issued, prov,
                   notices, maintenance>>
    /\ Written({"vps"})

\* The handler without its test of the reacting user: the bot's own reaction
\* is recorded like any other.
on_raw_reaction_add_unfiltered(u, m) ==
    /\ IF purge.message_id = 0 \/ m # purge.message_id
       THEN UNCHANGED protected
       ELSE protected' = {r \in protected : r.user_id # u}
                           \cup {[user_id |-> u, expires_at |-> now + ProtectPeriod]}
    /\ UNCHANGED <<now, users, vps, purge, giveaways, timers, gtasks, ptasks,
                   selfViews, grantViews, reply, nextMsg, issued, prov,
                   notices, maintenance>>
    /\ Written({})

\* The handler appending its record with the account's earlier one kept.
on_raw_reaction_add_append(u, m) ==
    /\ IF purge.message_id = 0 \/ m # purge.message_id \/ u = Bot
       THEN UNCHANGED protected
       ELSE protected' = protected
                           \cup {[user_id |-> u, expires_at |-> now + ProtectPeriod]}
    /\ UNCHANGED <<now, users, vps, purge, giveaways, timers, gtasks, ptasks,
                   selfViews, grantViews, reply, nextMsg, issued, prov,
                   notices, maintenance>>
    /\ Written({})

\* on_raw_reaction_add: user u reacts on message m (0: some other message).
on_raw_reaction_add(u, m) ==
    /\ IF purge.message_id = 0 \/ m # purge.message_id \/ u = Bot
       THEN UNCHANGED protected
       ELSE protected' = {r \in protected : r.user_id # u}
                           \cup {[user_id |-> u, expires_at |-> now + ProtectPeriod]}
    /\ UNCHANGED <<now, users, vps, purge, giveaways, timers, gtasks, ptasks,
                   selfViews, grantViews, reply, nextMsg, issued, prov,
                   notices, maintenance>>
    /\ Written({})

\* on_raw_reaction_add when save_purge_protected fails.  The list the handler
\* built lives in no module variable, so it is gone when the handler returns;
\* the file, which every later load_purge_protected reads, is as it was if the
\* open failed, and unreadable (read as no record) if the write broke off.
on_raw_reaction_add_unsaved(u, m, torn) ==
    /\ purge.message_id # 0 /\ m = purge.message_id /\ u # Bot
    /\ protected' = IF torn THEN {} ELSE protected
    /\ UNCHANGED <<now, users, vps, purge, giveaways, timers, gtasks, ptasks,
                   selfViews, grantViews, reply, nextMsg, issued, prov,
                   notices, maintenance>>
    /\ Written({})

\* .purgestop taking the armed deferred sweeps with it.
purge_stop_cancelling ==
    /\ purge' = [purge EXCEPT !.active = FALSE]
    /\ ptasks' = SelectSeq(ptasks, LAMBDA t : t.kind # "deferred")
    /\ UNCHANGED <<now, users, vps, protected, giveaways, timers, gtasks,
                   selfViews, grantViews, reply, nextMsg, issued, prov,
                   notices, maintenance>>
    /\ Written({"vps"})

\* .purgestop
purge_stop ==
    /\ purge' = [purge EXCEPT !.active = FALSE]
    /\ UNCHANGED <<now, users, vps, protected, giveaways, timers, gtasks,
                   ptasks, selfViews, grantViews, reply, nextMsg, issued, prov,
                   notices, maintenance>>
    /\ Written({"vps"})

NewPTask(kind, pc, wake) ==
    [kind |-> kind, pc |-> pc, wake |-> wake, pv |-> {}, pu |-> {},
     pids |-> {}, todo |-> <<>>]

\* The purges begun so far: one message id each, once announced.
StartedSweeps ==
    (nextMsg - 1) + Cardinality({i \in DOMAIN ptasks : ptasks[i].pc = "announce"})

\* A task that has ended leaves the list.
RemoveAt(q, i) == SubSeq(q, 1, i - 1) \o SubSeq(q, i + 1, Len(q))

\* list(VPS_DATA.get("vps", {}).items()): the ids with the owner each record has.
SnapshotItem(v) == [vid |-> v, owner |-> vps[v].owner]

Snapshot == MapSeq(SnapshotItem, Ascending(DOMAIN vps))

\* The test of line 1899 written `exp > now`.
protected_user_ids_strict(records, t) ==
    {r.user_id : r \in {x \in records : x.expires_at > t}}

\* execute_scheduled_purge, lines 1893-1901: the accounts of unexpired records.
protected_user_ids(records, t) ==
    {r.user_id : r \in {x \in records : x.expires_at >= t}}

\* The loop's test in purge_start, line 1829.
SkipsImmediate(task, item) ==
    item.vid \in task.pv \/ item.owner \in task.pu

\* The loop's test in execute_scheduled_purge, line 1910.
SkipsScheduled(task, item) ==
    item.vid \in task.pv \/ item.owner \in task.pu \/ item.owner \in task.pids

Skips(task, item) ==
    IF task.kind = "start" THEN SkipsImmediate(task, item)
    ELSE SkipsScheduled(task, item)

\* The items the loop passes over before its next deletion.
RECURSIVE SkipProtected(_, _)
SkipProtected(task, todo) ==
    IF todo = <<>> THEN <<>>
    ELSE IF Skips(task, Head(todo)) THEN SkipProtected(task, Tail(todo))
    ELSE todo

\* The sweep's loop from its current item to its next await (the log call
\* after a deletion) or to its end; p is the purge record as the handler
\* leaves it before the loop.
RunSweep(i, task, p) ==
    LET rest == SkipProtected(task, task.todo)
    IN  IF rest = <<>>
        THEN /\ ptasks' = RemoveAt(ptasks, i)
             /\ purge' = IF task.kind = "start" THEN [p EXCEPT !.active = FALSE] ELSE p
             /\ UNCHANGED vps
        ELSE /\ vps' = Drop(vps, Head(rest).vid)
             /\ ptasks' = [ptasks EXCEPT ![i] = [task EXCEPT !.todo = Tail(rest), !.pc = "sweep"]]
             /\ purge' = p

\* purge_start, lines 1770-1794: the window is opened, the announcement sent.
purge_start ==
    /\ StartedSweeps < MaxSweeps
    /\ purge' = [purge EXCEPT !.active = TRUE]
    /\ ptasks' = Append(ptasks, NewPTask("start", "announce", 0))
    /\ UNCHANGED <<now, users, vps, protected, giveaways, timers, gtasks,
                   selfViews, grantViews, reply, nextMsg, issued, prov,
                   notices, maintenance>>
    /\ Written({"vps"})

\* Lines 1794-1810: the announcement's id is stored; the reactions are added.
PurgeAnnounced(i) ==
    /\ ptasks[i].kind = "start" /\ ptasks[i].pc = "announce"
    /\ purge' = [purge EXCEPT !.message_id = nextMsg]
    /\ nextMsg' = nextMsg + 1
    /\ ptasks' = [ptasks EXCEPT ![i].pc = "react"]
    /\ UNCHANGED <<now, users, vps, protected, giveaways, timers, gtasks,
                   selfViews, grantViews, reply, issued, prov, notices,
                   maintenance>>
    /\ Written({"vps"})

\* Lines 1812-1836: the window's end is set, the deferred sweep armed and the
\* immediate sweep begun.
PurgeSweepBegin(i) ==
    /\ ptasks[i].kind = "start" /\ ptasks[i].pc = "react"
    /\ LET end == now + PurgeWindow
           p == [purge EXCEPT !.start_ts = now, !.end_ts = end]
           task == [ptasks[i] EXCEPT !.pv = purge.protected_vps,
                                     !.pu = purge.protected_users,
                                     !.todo = Snapshot]
           rest == SkipProtected(task, task.todo)
           armed == Append(ptasks, NewPTask("deferred", "sleep", end))
       IN  /\ ptasks' = IF rest = <<>> THEN RemoveAt(armed, i)
                         ELSE [armed EXCEPT ![i] = [task EXCEPT !.todo = Tail(rest),
                                                                !.pc = "sweep"]]
           /\ vps' = IF rest = <<>> THEN vps ELSE Drop(vps, Head(rest).vid)
           /\ purge' = IF rest = <<>> THEN [p EXCEPT !.active = FALSE] ELSE p
    /\ UNCHANGED <<now, users, protected, giveaways, timers, gtasks,
                   selfViews, grantViews, reply, nextMsg, issued, prov,
                   notices, maintenance>>
    /\ disk' = IF ~disk.tracked THEN disk
               ELSE [disk EXCEPT !.vps = vps, !.purge = purge']

\* schedule_purge_expiry wakes; execute_scheduled_purge, lines 1889-1914.
DeferredWake(i) ==
    /\ ptasks[i].kind = "deferred" /\ ptasks[i].pc = "sleep"
    /\ now >= ptasks[i].wake
    /\ RunSweep(i, [ptasks[i] EXCEPT !.pv = purge.protected_vps,
                                     !.pu = purge.protected_users,
                                     !.pids = protected_user_ids(protected, now),
                                     !.todo = Snapshot], purge)
    /\ UNCHANGED <<now, users, protected, giveaways, timers, gtasks,
                   selfViews, grantViews, reply, nextMsg, issued, prov,
                   notices, maintenance>>
    /\ Written(IF vps' = vps THEN {"vps"} ELSE {})

\* The log call after a deletion returns and the loop goes on.
SweepStep(i) ==
    /\ ptasks[i].pc = "sweep"
    /\ RunSweep(i, ptasks[i], purge)
    /\ UNCHANGED <<now, users, protected, giveaways, timers, gtasks,
                   selfViews, grantViews, reply, nextMsg, issued, prov,
                   notices, maintenance>>
    /\ Written(IF vps' = vps THEN {"vps"} ELSE {})

\* ----------------------------------------------------------------- startup
TrialIds == {v \in DOMAIN vps : vps[v].trial_expires # 0}

RearmedTimer(v) == TrialTimer(v, vps[v].trial_expires, vps[v].owner)

\* on_ready arming only the deadlines still ahead, an overdue one left alone.
on_ready_pending_only ==
    LET ahead == {v \in TrialIds : vps[v].trial_expires > now}
    IN  /\ DOMAIN giveaways # {} \/ TrialIds # {}
        /\ Len(gtasks) + Cardinality(DOMAIN giveaways) <= MaxGTasks
        /\ BagCardinality(timers) + Cardinality(TrialIds) <= MaxTimers
        /\ gtasks' = gtasks \o MapSeq(NewGTask, Ascending(DOMAIN giveaways))
        /\ timers' = timers (+) SeqToBag(MapSeq(RearmedTimer, Ascending(ahead)))
        /\ UNCHANGED <<now, users, vps, purge, protected, giveaways, ptasks,
                       selfViews, grantViews, reply, nextMsg, issued, prov,
                       notices, maintenance>>
        /\ Written({})

\* on_ready: a finalize task per stored giveaway, an expiry task per resource
\* that has trial_expires.  The platform may deliver it more than once.
on_ready ==
    /\ DOMAIN giveaways # {} \/ TrialIds # {}
    /\ Len(gtasks) + Cardinality(DOMAIN giveaways) <= MaxGTasks
    /\ BagCardinality(timers) + Cardinality(TrialIds) <= MaxTimers
    /\ gtasks' = gtasks \o MapSeq(NewGTask, Ascending(DOMAIN giveaways))
    /\ timers' = timers (+) SeqToBag(MapSeq(RearmedTimer, Ascending(TrialIds)))
    /\ UNCHANGED <<now, users, vps, purge, protected, giveaways, ptasks,
                   selfViews, grantViews, reply, nextMsg, issued, prov,
                   notices, maintenance>>
    /\ Written({})

\* ----------------------------------------------------------------- credits
\* The integer arguments the credit commands are tried with.
Deltas == {0 - BasicCost, BasicCost, ProCost}

\* The plans of buy_with_credits the model offers: "basic" and "pro".
PlanCosts == {BasicCost, ProCost}

\* The model's cap on a balance, either side of zero.
InRange(c) == 0 - MaxCredits <= c /\ c <= MaxCredits

SetCredits(db, u, c) == [db EXCEPT ![u].credits = c]

\* .adminc @member <amount>
admin_add_credits(u, amount) ==
    LET db1 == ensure_user_record(users, u)
        c == db1[u].credits + amount
    IN  /\ InRange(c)
        /\ users' = SetCredits(db1, u, c)
        /\ UNCHANGED <<now, vps, purge, protected, giveaways, timers, gtasks,
                       ptasks, selfViews, grantViews, reply, nextMsg, issued, prov,
                       notices, maintenance>>
        /\ Written({"users"})

\* .adminrc @member <amount | all>
admin_remove_credits(u, all, a) ==
    LET db1 == ensure_user_record(users, u)
        c == IF all THEN 0 ELSE Max({0, db1[u].credits - a})
    IN  /\ InRange(c)
        /\ users' = SetCredits(db1, u, c)
        /\ UNCHANGED <<now, vps, purge, protected, giveaways, timers, gtasks,
                       ptasks, selfViews, grantViews, reply, nextMsg, issued, prov,
                       notices, maintenance>>
        /\ Written({"users"})

\* .bulkgrant <amount> <members...>
bulk_grant(amount, members) ==
    /\ \A m \in members : InRange(Credits(users, m) + amount)
    /\ users' = [u \in DOMAIN users \cup members |->
                   IF u \in members
                   THEN [ensure_user_record(users, u)[u] EXCEPT !.credits = @ + amount]
                   ELSE users[u]]
    /\ UNCHANGED <<now, vps, purge, protected, giveaways, timers, gtasks,
                   ptasks, selfViews, grantViews, reply, nextMsg, issued, prov,
                   notices, maintenance>>
    /\ Written({"users"})

\* .transfer with the receiver's new balance computed from the balance read
\* before the sender was debited.
transfer_stale_read(u, t, amount) ==
    LET db2 == ensure_user_record(ensure_user_record(users, u), t)
        db3 == SetCredits(db2, u, db2[u].credits - amount)
        db4 == SetCredits(db3, t, db2[t].credits + amount)
    IN  /\ IF amount <= 0 THEN UNCHANGED users
           ELSE IF db2[u].credits < amount THEN users' = db2
           ELSE InRange(db4[t].credits) /\ users' = db4
        /\ UNCHANGED <<now, vps, purge, protected, giveaways, timers, gtasks,
                       ptasks, selfViews, grantViews, reply, nextMsg, issued, prov,
                       notices, maintenance>>
        /\ Written({"users"})

\* .transfer @member <amount>, sent by u
transfer(u, t, amount) ==
    LET db2 == ensure_user_record(ensure_user_record(users, u), t)
        db3 == SetCredits(db2, u, db2[u].credits - amount)
        db4 == SetCredits(db3, t, db3[t].credits + amount)
    IN  /\ IF amount <= 0 THEN UNCHANGED users
           ELSE IF db2[u].credits < amount THEN users' = db2
           ELSE InRange(db4[t].credits) /\ users' = db4
        /\ UNCHANGED <<now, vps, purge, protected, giveaways, timers, gtasks,
                       ptasks, selfViews, grantViews, reply, nextMsg, issued, prov,
                       notices, maintenance>>
        /\ Written({"users"})

\* .buywc <plan>, sent by u, the maintenance flag being off
buy_with_credits(u, cost) ==
    LET db1 == ensure_user_record(users, u)
        balance == db1[u].credits
    IN  /\ ~maintenance
        /\ IF balance < cost
           THEN users' = db1 /\ UNCHANGED <<vps, issued, prov>>
           ELSE /\ get_next_vps_id(vps) <= MaxVid
                /\ ProvisionRoom
                /\ users' = SetCredits(db1, u, balance - cost)
                /\ vps' = create_vps_record(vps, u)
                /\ issued' = issued \cup {get_next_vps_id(vps)}
                /\ prov' = StartProvision(prov, get_next_vps_id(vps))
        /\ UNCHANGED <<now, purge, protected, giveaways, timers, gtasks,
                       ptasks, selfViews, grantViews, reply, nextMsg, notices,
                       maintenance>>
        /\ Written(IF vps' = vps THEN {"users"} ELSE {"users", "vps"})

\* .gamble <amount>, sent by u; roll is where random.random() falls.
gamble(u, amount, roll) ==
    LET db1 == ensure_user_record(users, u)
        balance == db1[u].credits
        win == IF roll = "jackpot" THEN amount * GambleJackpot
               ELSE IF roll = "double" THEN amount * GambleDouble ELSE 0
    IN  /\ IF amount <= 0 THEN UNCHANGED users
           ELSE IF balance < amount THEN users' = db1
           ELSE /\ InRange(balance - amount + win)
                /\ users' = SetCredits(db1, u, balance - amount + win)
        /\ UNCHANGED <<now, vps, purge, protected, giveaways, timers, gtasks,
                       ptasks, selfViews, grantViews, reply, nextMsg, issued, prov,
                       notices, maintenance>>
        /\ Written({"users"})

InitCommon ==
    /\ now = 1
    /\ users = <<>>
    /\ vps = <<>>
    /\ purge = [active |-> FALSE, protected_vps |-> {}, protected_users |-> {},
                message_id |-> 0, start_ts |-> 0, end_ts |-> 0]
    /\ protected = {}
    /\ giveaways = <<>>
    /\ timers = EmptyBag
    /\ gtasks = <<>>
    /\ ptasks = <<>>
    /\ selfViews = [u \in Users |-> 0]
    /\ grantViews = [u \in Users |-> 0]
    /\ reply = "none"
    /\ nextMsg = 1
    /\ issued = {}
    /\ prov = NoProvisioning
    /\ disk = NoDisk
    /\ notices = NoNotices
    /\ maintenance = FALSE

NextTrial ==
    \/ Tick
    \/ \E u \in Users : TrialCommand(u)
    \/ \E u \in Users : ClaimClick(u)
    \/ \E u \in Users : GrantCommand(u)
    \/ \E u \in Users : GrantConfirm(u)
    \/ \E t \in BagToSet(timers) : TimerFire(t)
    \/ \E v \in DOMAIN vps : ConfirmDelete(v)
    \/ ConfirmDeleteAll
    \/ \E w \in {"users", "vps"} : clear_db(w)

SpecTrial == InitCommon /\ [][NextTrial]_vars

NextGiveaway ==
    \/ Tick
    \/ \E a \in Amounts, d \in 1..MaxDuration : giveaway_credits(a, d)
    \/ \E i \in DOMAIN gtasks : GwStart(i)
    \/ \E i \in DOMAIN gtasks, ok \in BOOLEAN, r \in BOOLEAN : GwFetched(i, ok, r)
    \/ \E i \in DOMAIN gtasks, S \in SUBSET Users : GwUsers(i, S)
    \/ \E i \in DOMAIN gtasks : GwUsersFail(i)
    \/ \E i \in DOMAIN gtasks : GwEdited(i)
    \/ \E i \in DOMAIN gtasks : GwLogged(i)
    \/ on_ready

SpecGiveaway == InitCommon /\ [][NextGiveaway]_vars

NextPurge ==
    \/ Tick
    \/ \E u \in Users : create_custom_vps(u)
    \/ \E u \in Users : dont_purge_user(u)
    \/ \E v \in 1..MaxVid : dont_purge_vps(v)
    \/ \E u \in Users \cup {Bot}, m \in {0, purge.message_id} : on_raw_reaction_add(u, m)
    \/ purge_stop
    \/ purge_start
    \/ \E i \in DOMAIN ptasks : PurgeAnnounced(i)
    \/ \E i \in DOMAIN ptasks : PurgeSweepBegin(i)
    \/ \E i \in DOMAIN ptasks : DeferredWake(i)
    \/ \E i \in DOMAIN ptasks : SweepStep(i)

SpecPurge == InitCommon /\ [][NextPurge]_vars

NextShop ==
    \/ \E u \in Users, a \in Deltas : admin_add_credits(u, a)
    \/ \E u \in Users, all \in BOOLEAN, a \in Deltas : admin_remove_credits(u, all, a)
    \/ \E a \in Deltas, S \in SUBSET Users : bulk_grant(a, S)
    \/ \E u \in Users, t \in Users, a \in Deltas : transfer(u, t, a)
    \/ \E u \in Users, c \in PlanCosts : buy_with_credits(u, c)
    \/ \E u \in Users, a \in Deltas, r \in {"jackpot", "double", "lose"} : gamble(u, a, r)
    \/ \E u \in Users : create_custom_vps(u)
    \/ \E v \in DOMAIN vps : ConfirmDelete(v)
    \/ ConfirmDeleteAll

SpecShop == InitCommon /\ [][NextShop]_vars

\* ------------------------------------------------- the deferred sweep alone
\* execute_scheduled_purge run against any store: a window was opened at some
\* start_ts <= now, its deferred task sleeps until end_ts, the maps hold any
\* resources, explicit protections and ProtectionRecords (at most one for an
\* account, as on_raw_reaction_add keeps them; a record made at time t expires
\* at t + ProtectPeriod).
InitSweep ==
    /\ now \in 1..MaxTime
    /\ \E S \in SUBSET (1..MaxVid) :
          vps \in [S -> [owner : Users, status : {"active"}, trial_expires : {0}]]
    /\ users = [u \in {vps[v].owner : v \in DOMAIN vps} |-> NewUser]
    /\ \E pv \in SUBSET (1..MaxVid), pu \in SUBSET Users, a \in BOOLEAN,
          start \in 1..now :
          purge = [active |-> a, protected_vps |-> pv, protected_users |-> pu,
                   message_id |-> 1, start_ts |-> start,
                   end_ts |-> start + PurgeWindow]
    /\ \E f \in [Users -> {0} \cup ((1 + ProtectPeriod)..(MaxTime + ProtectPeriod))] :
          protected = {[user_id |-> u, expires_at |-> f[u]] :
                          u \in {x \in Users : f[x] # 0}}
    /\ ptasks = <<NewPTask("deferred", "sleep", purge.end_ts)>>
    /\ giveaways = <<>>
    /\ timers = EmptyBag
    /\ gtasks = <<>>
    /\ selfViews = [u \in Users |-> 0]
    /\ grantViews = [u \in Users |-> 0]
    /\ reply = "none"
    /\ nextMsg = 2
    /\ issued = IF DOMAIN vps = {} THEN {} ELSE 1..Max(DOMAIN vps)
    /\ prov = NoProvisioning
    /\ disk = NoDisk
    /\ notices = NoNotices
    /\ maintenance = FALSE

NextSweep ==
    \/ Tick
    \/ \E i \in DOMAIN ptasks : DeferredWake(i)
    \/ \E i \in DOMAIN ptasks : SweepStep(i)

SpecSweep == InitSweep /\ [][NextSweep]_vars

\* ------------------------------------------------------------ purge claims
\* The protection predicate as the specification words it.
isProtected(v, o) ==
    \/ v \in purge.protected_vps
    \/ o \in purge.protected_users
    \/ \E r \in protected : r.user_id = o /\ r.expires_at >= now

Unprotected == {v \in DOMAIN vps : ~isProtected(v, vps[v].owner)}

\* C1: every purge sweep, the immediate one of purgestart and the deferred one
\* at the window's end, deletes exactly the resources isProtected is false of.
\* On the store it starts from, the sweep's loop runs to its first deletion in
\* one piece: it must delete the first unprotected resource, and nothing when
\* every resource is protected.
C1_SweepDeletesExactlyUnprotected ==
    [][\A i \in DOMAIN ptasks :
          (PurgeSweepBegin(i) \/ DeferredWake(i)) =>
              IF Unprotected = {}
              THEN DOMAIN vps' = DOMAIN vps
              ELSE DOMAIN vps \ DOMAIN vps' =
                       {CHOOSE v \in Unprotected : \A w \in Unprotected : v <= w}]_vars

C3_NoResolutionBeforeDeadline ==
    [][\A i \in DOMAIN gtasks :
          (GwStart(i) /\ gtasks[i].gid \in DOMAIN giveaways) =>
              now >= giveaways[gtasks[i].gid].end_ts]_vars

\* C4: one resolution per giveaway: of the finalization tasks of one giveaway
\* id at most one draws a winner and credits the reward.
C4_AtMostOneAward ==
    \A i \in DOMAIN gtasks, j \in DOMAIN gtasks :
        (gtasks[i].gid = gtasks[j].gid /\ gtasks[i].winner # NoUser
             /\ gtasks[j].winner # NoUser) => i = j

\* C5: finalization with a non-empty set S of qualifying reactors and reward R
\* adds R to the credits of exactly one member of S and leaves every other
\* account as it was.
C5_ExactlyOneWinnerCredited ==
    [][\A i \in DOMAIN gtasks, S \in SUBSET Users :
          (S # {} /\ GwUsers(i, S)) =>
              \E w \in S :
                  /\ w \in DOMAIN users'
                  /\ users'[w].credits = Credits(users, w) + gtasks[i].amount
                  /\ \A u \in Users \ {w} :
                         /\ u \in DOMAIN users' <=> u \in DOMAIN users
                         /\ u \in DOMAIN users => users'[u] = users[u]]_vars

\* A winner was drawn among two participants and holds the reward.
C5_WinnerAmongTwo ==
    \E i \in DOMAIN gtasks :
        /\ gtasks[i].winner \in gtasks[i].participants
        /\ Cardinality(gtasks[i].participants) = 2
        /\ Credits(users, gtasks[i].winner) >= gtasks[i].amount
        /\ gtasks[i].amount > 0

\* C6: finalization that finds no qualifying reactor changes no account's
\* credits and still deletes the giveaway record: from the step that learns
\* there is none to the task's end no step of the task touches the accounts,
\* and at its end the record is gone.
C6_NoReactorsNoCreditRecordDeleted ==
    [][\A i \in DOMAIN gtasks :
          (/\ gtasks'[i] # gtasks[i]
           /\ gtasks'[i].msg /\ gtasks'[i].winner = NoUser
           /\ gtasks'[i].pc \in {"edit", "log", "done"}) =>
              /\ users' = users
              /\ gtasks'[i].pc = "done" => gtasks[i].gid \notin DOMAIN giveaways']_vars

\* A finalization that fetched the message and found nobody has ended with
\* the record removed.
C6_EndedWithoutWinner ==
    \E i \in DOMAIN gtasks :
        /\ gtasks[i].pc = "done" /\ gtasks[i].msg
        /\ gtasks[i].winner = NoUser /\ gtasks[i].participants = {}
        /\ gtasks[i].gid \notin DOMAIN giveaways

C8_OneTrialOneBonus ==
    \A u \in Users :
        /\ Credits(users, u) <= TrialCredits
        /\ Cardinality({v \in DOMAIN vps :
                           vps[v].owner = u /\ vps[v].status = "trial"}) <= 1

\* C9: every resource of status trial has a trial deadline and an owner whose
\* account has trial_active = true.
C9_TrialResourceInvariant ==
    \A v \in DOMAIN vps :
        vps[v].status = "trial" =>
            /\ vps[v].trial_expires # 0
            /\ vps[v].owner \in DOMAIN users
            /\ users[vps[v].owner].trial_active

\* C10: once a trial's deadline has passed and its armed resolver has run, the
\* trial resource is gone and the owner's trial_active is false, also when the
\* resource was removed before the deadline.
C10_ExpiryRevertsTrial ==
    [][\A t \in BagToSet(timers) :
          TimerFire(t) =>
              /\ t.vid \notin DOMAIN vps'
              /\ t.owner \in DOMAIN users' => ~users'[t.owner].trial_active]_vars

\* ------------------------------------------------------ one purge window
\* purgestart against any store: resources and explicit protections as the
\* commands before it left them (the lists naming stored resources and their
\* owners), no rallying message yet and no record.
InitWindow ==
    /\ now \in 1..MaxTime
    /\ \E S \in SUBSET (1..MaxVid) :
          vps \in [S -> [owner : Users, status : {"active"}, trial_expires : {0}]]
    /\ users = [u \in {vps[v].owner : v \in DOMAIN vps} |-> NewUser]
    /\ \E pv \in SUBSET (DOMAIN vps), pu \in SUBSET {vps[v].owner : v \in DOMAIN vps} :
          purge = [active |-> FALSE, protected_vps |-> pv, protected_users |-> pu,
                   message_id |-> 0, start_ts |-> 0, end_ts |-> 0]
    /\ protected = {}
    /\ ptasks = <<>>
    /\ giveaways = <<>>
    /\ timers = EmptyBag
    /\ gtasks = <<>>
    /\ selfViews = [u \in Users |-> 0]
    /\ grantViews = [u \in Users |-> 0]
    /\ reply = "none"
    /\ nextMsg = 1
    /\ issued = IF DOMAIN vps = {} THEN {} ELSE 1..Max(DOMAIN vps)
    /\ prov = NoProvisioning
    /\ disk = NoDisk
    /\ notices = NoNotices
    /\ maintenance = FALSE

NextWindow ==
    \/ Tick
    \/ \E u \in Users \cup {Bot}, m \in {0, purge.message_id} : on_raw_reaction_add(u, m)
    \/ purge_start
    \/ \E i \in DOMAIN ptasks : PurgeAnnounced(i)
    \/ \E i \in DOMAIN ptasks : PurgeSweepBegin(i)
    \/ \E i \in DOMAIN ptasks : DeferredWake(i)
    \/ \E i \in DOMAIN ptasks : SweepStep(i)

SpecWindow == InitWindow /\ [][NextWindow]_vars

\* ------------------------------------------------------- failing writes
\* One purge window with the protection file's writes failing at will.  The
\* other three documents are module variables that the save functions only
\* copy out: a failed save of those leaves the state the model already has.
NextPersist ==
    \/ NextWindow
    \/ \E u \in Users, torn \in BOOLEAN :
          on_raw_reaction_add_unsaved(u, purge.message_id, torn)

SpecPersist == InitWindow /\ [][NextPersist]_vars

\* ----------------------------------------------------------- process start
\* The documents a starting process loads, as earlier runs can have left
\* them: resources with or without a trial deadline (due or not), the account
\* of each owner, giveaways due or pending, and a purge window that is either
\* absent or opened at this very time.  No task survives from the earlier
\* run.  The store holds resources or giveaways, one kind of deadline at a
\* time: on_ready arms the two kinds in separate loops over separate documents.
StoredResources ==
    [owner : Users, status : {"active"}, trial_expires : {0}]
        \cup [owner : Users, status : {"trial"},
               trial_expires : 1..(MaxTime + TrialPeriod)]

OwnsTrial(u) == \E v \in DOMAIN vps : vps[v].owner = u /\ vps[v].trial_expires # 0

InitRestart ==
    /\ now \in 1..MaxTime
    /\ \E S \in SUBSET (1..MaxVid) : vps \in [S -> StoredResources]
    /\ users = [u \in {vps[v].owner : v \in DOMAIN vps} |->
                   [credits |-> 0, trial_claimed |-> OwnsTrial(u),
                    trial_active |-> OwnsTrial(u)]]
    /\ \E G \in SUBSET (1..MaxGiveaways) :
          giveaways \in [G -> [end_ts : {1, MaxTime + 1}, amount : Amounts]]
    /\ DOMAIN vps = {} \/ DOMAIN giveaways = {}
    /\ Cardinality(TrialIds) <= MaxTimers
    /\ \E open \in BOOLEAN :
          purge = [active |-> FALSE, protected_vps |-> {}, protected_users |-> {},
                   message_id |-> IF open THEN MaxGiveaways + 1 ELSE 0,
                   start_ts |-> IF open THEN now ELSE 0,
                   end_ts |-> IF open THEN now + PurgeWindow ELSE 0]
    /\ protected = {}
    /\ timers = EmptyBag
    /\ gtasks = <<>>
    /\ ptasks = <<>>
    /\ selfViews = [u \in Users |-> 0]
    /\ grantViews = [u \in Users |-> 0]
    /\ reply = "none"
    /\ nextMsg = MaxGiveaways + 2
    /\ issued = IF DOMAIN vps = {} THEN {} ELSE 1..Max(DOMAIN vps)
    /\ prov = NoProvisioning
    /\ disk = NoDisk
    /\ notices = NoNotices
    /\ maintenance = FALSE

\* The process after its start with no command arriving, as far as trial
\* expiry goes: the ready event and the expiry tasks it created.  The finalize
\* tasks it created for giveaways wait; they read and write no resource and no
\* trial flag.
NextRecovery ==
    \/ Tick
    \/ on_ready
    \/ \E t \in BagToSet(timers) : TimerFire(t)

\* The event loop runs a task that is ready, and the platform delivers the
\* ready event.
SpecRecovery ==
    /\ InitRestart
    /\ [][NextRecovery]_vars
    /\ WF_vars(on_ready)
    /\ WF_vars(\E t \in BagToSet(timers) : TimerFire(t))

\* The whole of it: the finalize tasks run too, and resources are deleted by
\* command meanwhile.
NextRestart ==
    \/ NextRecovery
    \/ \E i \in DOMAIN gtasks : GwStart(i)
    \/ \E i \in DOMAIN gtasks, ok \in BOOLEAN, r \in BOOLEAN : GwFetched(i, ok, r)
    \/ \E i \in DOMAIN gtasks, S \in SUBSET Users : GwUsers(i, S)
    \/ \E i \in DOMAIN gtasks : GwUsersFail(i)
    \/ \E i \in DOMAIN gtasks : GwEdited(i)
    \/ \E i \in DOMAIN gtasks : GwLogged(i)
    \/ \E v \in DOMAIN vps : ConfirmDelete(v)

SpecRestart == InitRestart /\ [][NextRestart]_vars

\* ------------------------------------------------- trials and deployments
\* Trials claimed by their accounts next to resources an admin deploys, with
\* the deletion button and the expiry tasks.
NextLifecycle ==
    \/ Tick
    \/ \E u \in Users : TrialCommand(u)
    \/ \E u \in Users : ClaimClick(u)
    \/ \E u \in Users : create_custom_vps(u)
    \/ \E t \in BagToSet(timers) : TimerFire(t)
    \/ \E v \in DOMAIN vps : ConfirmDelete(v)

SpecLifecycle == InitCommon /\ [][NextLifecycle]_vars

\* ------------------------------------------------------ documents followed
\* The process started on empty documents, its documents followed from then
\* on: what load_user_db, load_vps_data and load_giveaways read is what the
\* maps hold.
InitDurable ==
    /\ now = 1
    /\ users = <<>>
    /\ vps = <<>>
    /\ purge = [active |-> FALSE, protected_vps |-> {}, protected_users |-> {},
                message_id |-> 0, start_ts |-> 0, end_ts |-> 0]
    /\ protected = {}
    /\ giveaways = <<>>
    /\ timers = EmptyBag
    /\ gtasks = <<>>
    /\ ptasks = <<>>
    /\ selfViews = [u \in Users |-> 0]
    /\ grantViews = [u \in Users |-> 0]
    /\ reply = "none"
    /\ nextMsg = 1
    /\ issued = {}
    /\ prov = NoProvisioning
    /\ disk = [tracked |-> TRUE, users |-> users, vps |-> vps, purge |-> purge,
               giveaways |-> giveaways]
    /\ notices = NoNotices
    /\ maintenance = FALSE

NextDurable ==
    \/ Tick
    \/ \E u \in Users, a \in Deltas : admin_add_credits(u, a)
    \/ \E u \in Users, c \in PlanCosts : buy_with_credits(u, c)
    \/ \E u \in Users : create_custom_vps(u)
    \/ purge_start
    \/ \E i \in DOMAIN ptasks : PurgeAnnounced(i)
    \/ \E i \in DOMAIN ptasks : PurgeSweepBegin(i)
    \/ \E i \in DOMAIN ptasks : DeferredWake(i)
    \/ \E i \in DOMAIN ptasks : SweepStep(i)

SpecDurable == InitDurable /\ [][NextDurable]_vars

\* ------------------------------------------------------ expiry notification
\* Everything but notices, which the rest of the resolver leaves alone.
NoticeFrame ==
    /\ UNCHANGED <<now, users, vps, purge, protected, giveaways, timers, gtasks,
                   ptasks, selfViews, grantViews, reply, nextMsg, issued, prov,
                   maintenance>>
    /\ Written({})

\* u = await bot.fetch_user(int(owner)) returns or raises; the outer try
\* (lines 388-397) takes a failure to the log call.
NotifyFetched(i, ok) ==
    /\ notices.q[i].pc = "fetch"
    /\ notices' = [notices EXCEPT !.q[i].pc = IF ok THEN "send" ELSE "log"]
    /\ NoticeFrame

\* await u.send(...) returns or raises; the inner try (lines 392-395) passes.
NotifySent(i, ok) ==
    /\ notices.q[i].pc = "send"
    /\ notices' = [notices EXCEPT !.q[i].pc = "log", !.q[i].sent = ok]
    /\ NoticeFrame

\* await log_action(...) returns (it raises nothing) and the resolver ends.
NotifyLogged(i) ==
    /\ notices.q[i].pc = "log"
    /\ notices' = [notices EXCEPT !.q = RemoveAt(@, i)]
    /\ NoticeFrame

\* The process started on empty documents, documents and resolvers followed.
InitNotify ==
    /\ now = 1
    /\ users = <<>>
    /\ vps = <<>>
    /\ purge = [active |-> FALSE, protected_vps |-> {}, protected_users |-> {},
                message_id |-> 0, start_ts |-> 0, end_ts |-> 0]
    /\ protected = {}
    /\ giveaways = <<>>
    /\ timers = EmptyBag
    /\ gtasks = <<>>
    /\ ptasks = <<>>
    /\ selfViews = [u \in Users |-> 0]
    /\ grantViews = [u \in Users |-> 0]
    /\ reply = "none"
    /\ nextMsg = 1
    /\ issued = {}
    /\ prov = NoProvisioning
    /\ disk = [tracked |-> TRUE, users |-> users, vps |-> vps, purge |-> purge,
               giveaways |-> giveaways]
    /\ notices = [tracked |-> TRUE, q |-> <<>>]
    /\ maintenance = FALSE

NextNotify ==
    \/ Tick
    \/ \E u \in Users : TrialCommand(u)
    \/ \E u \in Users : ClaimClick(u)
    \/ \E t \in BagToSet(timers) : TimerFire(t)
    \/ \E i \in DOMAIN notices.q, ok \in BOOLEAN : NotifyFetched(i, ok)
    \/ \E i \in DOMAIN notices.q, ok \in BOOLEAN : NotifySent(i, ok)
    \/ \E i \in DOMAIN notices.q : NotifyLogged(i)

SpecNotify == InitNotify /\ [][NextNotify]_vars

\* ----------------------------------------------------------- window stopped
\* A purge window opened, swept and stopped by command.
NextStop ==
    \/ Tick
    \/ purge_start
    \/ purge_stop
    \/ \E i \in DOMAIN ptasks : PurgeAnnounced(i)
    \/ \E i \in DOMAIN ptasks : PurgeSweepBegin(i)
    \/ \E i \in DOMAIN ptasks : DeferredWake(i)
    \/ \E i \in DOMAIN ptasks : SweepStep(i)

SpecStop == InitWindow /\ [][NextStop]_vars

\* -------------------------------------------------------- maintenance mode
\* What a status command leaves alone: everything but the records.
StatusFrame ==
    /\ UNCHANGED <<now, users, purge, protected, giveaways, timers, gtasks,
                   ptasks, selfViews, grantViews, reply, nextMsg, issued, prov,
                   notices>>
    /\ Written({"vps"})

\* .maintenance on/off: the flag follows the mode, and "on" stops every
\* resource.
maintenance_toggle(mode) ==
    /\ maintenance' = (mode = "on")
    /\ vps' = IF mode = "on"
              THEN [v \in DOMAIN vps |-> [vps[v] EXCEPT !.status = "stopped"]]
              ELSE vps
    /\ StatusFrame

\* The Start button of a management panel, refused under maintenance.
start(vid) ==
    /\ ~maintenance
    /\ vps' = [vps EXCEPT ![vid].status = "active"]
    /\ UNCHANGED maintenance
    /\ StatusFrame

\* The Stop button of a management panel.
stop(vid) ==
    /\ vps' = [vps EXCEPT ![vid].status = "stopped"]
    /\ UNCHANGED maintenance
    /\ StatusFrame

\* .suspendvps <@user>, a resource picked from the menu.
suspend(vid) ==
    /\ vps' = [vps EXCEPT ![vid].status = "suspended"]
    /\ UNCHANGED maintenance
    /\ StatusFrame

\* .unsuspend <user> <vps#>
unsuspend(u, vid) ==
    /\ vid \in DOMAIN vps
    /\ vps[vid].owner = u
    /\ vps' = [vps EXCEPT ![vid].status = "active"]
    /\ UNCHANGED maintenance
    /\ StatusFrame

\* The Confirm button of .deploy <@user>, the plan picked.
ConfirmDeploy(u) ==
    /\ get_next_vps_id(vps) <= MaxVid
    /\ ProvisionRoom
    /\ vps' = create_vps_record(vps, u)
    /\ issued' = issued \cup {get_next_vps_id(vps)}
    /\ prov' = StartProvision(prov, get_next_vps_id(vps))
    /\ UNCHANGED <<now, users, purge, protected, giveaways, timers, gtasks,
                   ptasks, selfViews, grantViews, reply, nextMsg, notices,
                   maintenance>>
    /\ Written({"vps"})

\* The commands that create, start or stop a resource, next to the switch.
NextMaintenance ==
    \/ \E mode \in {"on", "off"} : maintenance_toggle(mode)
    \/ \E v \in DOMAIN vps : start(v)
    \/ \E v \in DOMAIN vps : stop(v)
    \/ \E v \in DOMAIN vps : suspend(v)
    \/ \E u \in Users, v \in DOMAIN vps : unsuspend(u, v)
    \/ \E u \in Users : create_custom_vps(u)
    \/ \E u \in Users : ConfirmDeploy(u)
    \/ \E u \in Users : TrialCommand(u)
    \/ \E u \in Users : ClaimClick(u)

SpecMaintenance == InitCommon /\ [][NextMaintenance]_vars

\* ------------------------------------------------- provisioning tasks
\* Everything but prov, which a step of a provisioning task leaves alone.
ProvFrame ==
    UNCHANGED <<now, users, vps, purge, protected, giveaways, timers, gtasks,
                ptasks, selfViews, grantViews, reply, nextMsg, issued, notices,
                maintenance>>

\* v = VPS_DATA.get("vps", {}).get(vid): the task returns if the id is not in
\* the store, else holds the store's record and goes on to the thread call.
ProvLookup(i) ==
    LET t == prov.tasks[i]
    IN  IF t.vid \notin DOMAIN vps
        THEN prov' = [prov EXCEPT !.tasks = RemoveAt(@, i)]
        ELSE prov' = [prov EXCEPT !.tasks[i].pc = "running",
                                  !.tasks[i].v = prov.obj[t.vid]]

\* The error noted on whatever record the store holds under the task's id
\* now, if any: the branch without a client, and the handler of the outer try.
ProvNoteError(i) ==
    LET t == prov.tasks[i]
    IN  IF t.vid \in DOMAIN vps
        THEN prov' = [prov EXCEPT !.meta[prov.obj[t.vid]] = "failed",
                                  !.tasks = RemoveAt(@, i)]
        ELSE prov' = [prov EXCEPT !.tasks = RemoveAt(@, i)]

\* provision_docker_for_vps, its first run: the lookup.
provision_docker_for_vps(i) ==
    /\ prov.backend = "docker"
    /\ prov.tasks[i].pc = "start"
    /\ ProvLookup(i)
    /\ ProvFrame
    /\ Written({})

\* provision_lxd_for_vps resumed with the outcome of ensure_lxd_client: without
\* a client the error is noted, with one the lookup follows.
provision_lxd_for_vps(i, client) ==
    /\ prov.backend = "lxd"
    /\ prov.tasks[i].pc = "start"
    /\ IF client THEN ProvLookup(i) ELSE ProvNoteError(i)
    /\ ProvFrame
    /\ Written(IF ~client /\ prov.tasks[i].vid \in DOMAIN vps THEN {"vps"} ELSE {})

\* Either task resumed with the (ok, result) of its thread call: the fields
\* are written on the record the task holds.
provision_result(i, ok) ==
    /\ prov.tasks[i].pc = "running"
    /\ prov' = [prov EXCEPT !.meta[prov.tasks[i].v] =
                                IF ok THEN "provisioned" ELSE "failed",
                            !.tasks = RemoveAt(@, i)]
    /\ ProvFrame
    /\ Written({"vps"})

\* Either task resumed with an exception: except Exception looks the id up
\* again.
provision_except(i) ==
    /\ prov.tasks[i].pc = "running"
    /\ ProvNoteError(i)
    /\ ProvFrame
    /\ Written(IF prov.tasks[i].vid \in DOMAIN vps THEN {"vps"} ELSE {})

ProvStep(i) ==
    \/ provision_docker_for_vps(i)
    \/ \E client \in BOOLEAN : provision_lxd_for_vps(i, client)
    \/ \E ok \in BOOLEAN : provision_result(i, ok)
    \/ provision_except(i)

\* The process with one of the two backends enabled.
InitProvision ==
    /\ now = 1
    /\ users = <<>>
    /\ vps = <<>>
    /\ purge = [active |-> FALSE, protected_vps |-> {}, protected_users |-> {},
                message_id |-> 0, start_ts |-> 0, end_ts |-> 0]
    /\ protected = {}
    /\ giveaways = <<>>
    /\ timers = EmptyBag
    /\ gtasks = <<>>
    /\ ptasks = <<>>
    /\ selfViews = [u \in Users |-> 0]
    /\ grantViews = [u \in Users |-> 0]
    /\ reply = "none"
    /\ nextMsg = 1
    /\ issued = {}
    /\ \E b \in Backends : prov = [NoProvisioning EXCEPT !.backend = b]
    /\ disk = NoDisk
    /\ notices = NoNotices
    /\ maintenance = FALSE

NextProvision ==
    \/ \E u \in Users : create_custom_vps(u)
    \/ \E v \in DOMAIN vps : ConfirmDelete(v)
    \/ ConfirmDeleteAll
    \/ \E i \in DOMAIN prov.tasks : provision_docker_for_vps(i)
    \/ \E i \in DOMAIN prov.tasks, client \in BOOLEAN : provision_lxd_for_vps(i, client)
    \/ \E i \in DOMAIN prov.tasks, ok \in BOOLEAN : provision_result(i, ok)
    \/ \E i \in DOMAIN prov.tasks : provision_except(i)

SpecProvision == InitProvision /\ [][NextProvision]_vars

\* ------------------------------------------------------- pending expiries
\* The process with trials under way.  Each trial resource in the store has
\* the expiry task its start created.  Besides, expiry tasks are pending for
\* trials whose resource a command has deleted since (nothing cancels a
\* task): a stale task keeps the id and the deadline of the deleted trial, and
\* the id may have been given out again, to a trial started no earlier.  Every
\* trial is of a different account.
Deadlines == 2..(now + TrialPeriod)

StaleTimers == [vid : 1..MaxVid, end_ts : Deadlines, owner : Users]

InitExpiry ==
    /\ now \in 1..MaxTime
    /\ \E S \in SUBSET (1..MaxVid) :
          /\ Cardinality(S) <= MaxTimers
          /\ vps \in [S -> [owner : Users, status : {"trial"}, trial_expires : Deadlines]]
    /\ \E stale \in SUBSET StaleTimers :
          /\ Cardinality(stale) <= MaxTimers
          /\ \A t \in stale :
                /\ t.vid \in DOMAIN vps => t.end_ts <= vps[t.vid].trial_expires
                /\ \A v \in DOMAIN vps : vps[v].owner # t.owner
                /\ \A t2 \in stale : t2.owner = t.owner => t2 = t
          /\ \A v, w \in DOMAIN vps : vps[v].owner = vps[w].owner => v = w
          /\ timers = SetToBag(stale)
                         (+) SetToBag({TrialTimer(v, vps[v].trial_expires, vps[v].owner) :
                                          v \in DOMAIN vps})
    /\ users = [u \in {t.owner : t \in BagToSet(timers)} |->
                   [credits |-> TrialCredits, trial_claimed |-> TRUE,
                    trial_active |-> TRUE]]
    /\ purge = [active |-> FALSE, protected_vps |-> {}, protected_users |-> {},
                message_id |-> 0, start_ts |-> 0, end_ts |-> 0]
    /\ protected = {}
    /\ giveaways = <<>>
    /\ gtasks = <<>>
    /\ ptasks = <<>>
    /\ selfViews = [u \in Users |-> 0]
    /\ grantViews = [u \in Users |-> 0]
    /\ reply = "none"
    /\ nextMsg = 1
    /\ issued = {t.vid : t \in BagToSet(timers)}
    /\ prov = NoProvisioning
    /\ disk = NoDisk
    /\ notices = NoNotices
    /\ maintenance = FALSE

NextExpiry ==
    \/ Tick
    \/ \E t \in BagToSet(timers) : TimerFire(t)
    \/ \E v \in DOMAIN vps : ConfirmDelete(v)

SpecExpiry == InitExpiry /\ [][NextExpiry]_vars

\* ------------------------------------------------ id and credit claims
\* C11: an id create_vps_record has once returned is never returned again,
\* whatever was deleted in between.
C11_IdsNeverReused ==
    [][\A n \in DOMAIN vps' \ DOMAIN vps : n \notin issued]_vars

\* C12: each id create_vps_record returns is max(live ids) + 1, or 1 when no
\* resource exists; it differs from every live id (the live records stay as
\* they were); and it exceeds every id returned before, unless that earlier id
\* is at least the new one and its resource was deleted in between.
C12_NextIdIsMaxPlusOne ==
    [][\A u \in Users :
          (\/ create_custom_vps(u)
           \/ \E c \in PlanCosts :
                 buy_with_credits(u, c) /\ Credits(users, u) >= c) =>
              /\ Cardinality(DOMAIN vps' \ DOMAIN vps) = 1
              /\ \A v \in DOMAIN vps : vps'[v] = vps[v]
              /\ \A n \in DOMAIN vps' \ DOMAIN vps :
                    /\ \/ DOMAIN vps = {} /\ n = 1
                       \/ n - 1 \in DOMAIN vps /\ \A x \in DOMAIN vps : x < n
                    /\ vps'[n].owner = u
                    /\ \A q \in issued : q < n \/ (q >= n /\ q \notin DOMAIN vps)]_vars

\* Resource 2 was created while resource 1 lived, and resource 1 deleted since.
C12_CreatedThenDeleted ==
    /\ issued = {1, 2}
    /\ DOMAIN vps = {2}

\* C13: every account's credit balance is non-negative in every reachable
\* state, whatever integers the credit commands are given.
C13_CreditsNonNegative ==
    \A u \in DOMAIN users : users[u].credits >= 0

\* C14: a credit adjustment whose result would be negative is rejected and
\* leaves the balance as it was: an addition of a negative amount, a removal
\* of more than the balance (only "all" may set the balance to zero), a
\* transfer or a purchase beyond the balance.
C14_NegativeResultRejected ==
    [][\A u \in Users, a \in Deltas :
          /\ (admin_add_credits(u, a) /\ Credits(users, u) + a < 0)
                => Credits(users', u) = Credits(users, u)
          /\ (admin_remove_credits(u, FALSE, a) /\ Credits(users, u) - a < 0)
                => Credits(users', u) = Credits(users, u)
          /\ \A t \in Users :
                (transfer(u, t, a) /\ Credits(users, u) - a < 0)
                    => \A x \in Users : Credits(users', x) = Credits(users, x)
          /\ \A c \in PlanCosts :
                (buy_with_credits(u, c) /\ Credits(users, u) - c < 0)
                    => Credits(users', u) = Credits(users, u) /\ vps' = vps]_vars


\* ---------------------------------------------------------- startup claims
Overdue(v) ==
    v \in DOMAIN vps /\ vps[v].trial_expires # 0 /\ vps[v].trial_expires <= now

\* C15: a process started on a store holding a resource whose trial deadline
\* has passed arms, in on_ready, an expiry task that is due at once (its wait is
\* zero), and with nothing but the event loop running that resource comes to
\* be deleted; the step that deletes it sets its owner's trial_active to
\* false, and nothing sets it back.
C15_OverdueTrialResolved ==
    /\ [][on_ready =>
            \A v \in DOMAIN vps : Overdue(v) =>
                \E t \in BagToSet(timers') : t.vid = v /\ t.end_ts <= now']_vars
    /\ [][\A v \in DOMAIN vps \ DOMAIN vps' :
            /\ Overdue(v)
            /\ vps[v].owner \in DOMAIN users'
            /\ ~users'[vps[v].owner].trial_active]_vars
    /\ [][\A o \in DOMAIN users :
            ~users[o].trial_active =>
                o \in DOMAIN users' /\ ~users'[o].trial_active]_vars
    /\ \A v \in 1..MaxVid : Overdue(v) ~> (v \notin DOMAIN vps)

\* A trial resolved at time 1: no time has passed since the process started.
C15_ResolvedAtStartTime ==
    /\ now = 1
    /\ timers = EmptyBag
    /\ \E o \in DOMAIN users : users[o].trial_claimed /\ ~users[o].trial_active


\* C16: every stored trial deadline and every stored giveaway has its resolver
\* armed once and no more, however often the ready event is delivered: no
\* resource has two expiry tasks pending and no giveaway two finalize tasks
\* unfinished.
C16_ArmedAtMostOnce ==
    /\ \A t \in BagToSet(timers) : CopiesIn(t, timers) <= 1
    /\ \A i, j \in DOMAIN gtasks :
          (/\ gtasks[i].gid = gtasks[j].gid
           /\ gtasks[i].pc # "done"
           /\ gtasks[j].pc # "done") => i = j


\* C17: a process that starts while a purge window is open (the stored end_ts
\* is still ahead) has, once its ready event is handled, a deferred sweep
\* armed for that end_ts.
C17_OpenWindowRearmed ==
    [][(on_ready /\ purge.end_ts > now) =>
          \E i \in DOMAIN ptasks' :
              ptasks'[i].kind = "deferred" /\ ptasks'[i].wake = purge.end_ts]_vars


\* C18: a resolver run for an id whose record is gone ends at once and
\* changes no account, no resource and no giveaway: an expiry task whose
\* resource was deleted, a finalize task whose giveaway another task has
\* already removed.
C18_AbsentTargetIsNoOp ==
    [][/\ \A t \in BagToSet(timers) :
            (TimerFire(t) /\ t.vid \notin DOMAIN vps) =>
                /\ users' = users /\ vps' = vps /\ giveaways' = giveaways
                /\ timers' = timers (-) One(t)
       /\ \A i \in DOMAIN gtasks :
            (GwStart(i) /\ gtasks[i].gid \notin DOMAIN giveaways) =>
                /\ users' = users /\ vps' = vps /\ giveaways' = giveaways
                /\ gtasks'[i].pc = "done"]_vars

\* A finalize task that ended at its first step, its giveaway having been
\* removed by the task armed before it.
C18_SecondFinalizeEndedAtOnce ==
    \E i, j \in DOMAIN gtasks :
        /\ i < j
        /\ gtasks[i].gid = gtasks[j].gid
        /\ gtasks[i].pc = "done" /\ gtasks[i].amount # 0
        /\ gtasks[j].pc = "done" /\ gtasks[j].amount = 0
        /\ gtasks[j].gid \notin DOMAIN giveaways


\* ------------------------------------------------------------- purge window
DeferredCount(q) == Cardinality({k \in DOMAIN q : q[k].kind = "deferred"})

\* C19: opening a purge window sets off two sweeps and no more.  The handler's
\* own sweep deletes nothing that is protected when it starts; the same step
\* arms one deferred sweep for end_ts = start + PurgeWindow, and no other step
\* arms one; the deferred sweep runs no earlier than end_ts and deletes nothing
\* that is protected, reaction records included, when it runs.
C19_TwoSweepsPerWindow ==
    [][/\ \A i \in DOMAIN ptasks :
            /\ PurgeSweepBegin(i) =>
                  /\ purge'.end_ts = now + PurgeWindow
                  /\ DeferredCount(ptasks') = DeferredCount(ptasks) + 1
                  /\ \E k \in DOMAIN ptasks' :
                        /\ ptasks'[k].kind = "deferred"
                        /\ ptasks'[k].pc = "sleep"
                        /\ ptasks'[k].wake = purge'.end_ts
                  /\ \A v \in DOMAIN vps \ DOMAIN vps' : ~isProtected(v, vps[v].owner)
            /\ DeferredWake(i) =>
                  /\ now >= ptasks[i].wake
                  /\ \A v \in DOMAIN vps \ DOMAIN vps' : ~isProtected(v, vps[v].owner)
       /\ DeferredCount(ptasks') > DeferredCount(ptasks) =>
            \E i \in DOMAIN ptasks : PurgeSweepBegin(i)]_vars


\* C20: the protection document never holds two records of one account; a
\* reaction on the announcement leaves the reacting account with the single
\* record that expires ProtectPeriod after the reaction, whatever record it
\* had, and leaves the records of the other accounts as they were.
C20_OneRecordPerAccount ==
    /\ [](\A r1, r2 \in protected : r1.user_id = r2.user_id => r1 = r2)
    /\ [][\A u \in Users :
            (on_raw_reaction_add(u, purge.message_id) /\ purge.message_id # 0) =>
                /\ [user_id |-> u, expires_at |-> now + ProtectPeriod] \in protected'
                /\ \A r \in protected' :
                      r.user_id = u => r.expires_at = now + ProtectPeriod
                /\ {r \in protected' : r.user_id # u}
                      = {r \in protected : r.user_id # u}]_vars

\* One account's record was granted at this time, later than another's, which
\* is still held as it was granted.
C20_LaterGrantKeepsOthers ==
    \E r1, r2 \in protected :
        /\ r1.user_id # r2.user_id
        /\ r1.expires_at = now + ProtectPeriod
        /\ r2.expires_at < r1.expires_at


\* C21: the protection document changes only in a step that is the reaction
\* of an account other than the bot on the recorded rallying message, and then
\* only in that account's record; so a reaction by the bot, on another message,
\* or with no rallying message recorded leaves it as it was.
C21_OnlyRallyReactionsGrant ==
    [][protected' # protected =>
          /\ purge.message_id # 0
          /\ \E u \in Users :
                /\ on_raw_reaction_add(u, purge.message_id)
                /\ \A r \in (protected' \ protected) \cup (protected \ protected') :
                      r.user_id = u]_vars

\* An account holds a record and the bot none, the announcement being posted
\* (the bot adds its own reactions to it).
C21_AccountRecordedBotNot ==
    /\ purge.message_id # 0
    /\ \E r \in protected : r.user_id \in Users
    /\ \A r \in protected : r.user_id # Bot
    /\ \E i \in DOMAIN ptasks : ptasks[i].kind = "deferred"


\* ----------------------------------------------------------- account claims
\* C22: an account, once it exists, exists in every later state, and its
\* trial_claimed flag, once true, stays true.
C22_AccountsNeverDeleted ==
    [][\A u \in DOMAIN users :
          /\ u \in DOMAIN users'
          /\ users[u].trial_claimed => users'[u].trial_claimed]_vars


\* C23: ensure_user_record on an absent id adds the record with zero credits
\* and every flag false; on an id that has a record it returns the map as it
\* is; a second call changes nothing more; no other account is touched.
C23_EnsureIdempotent ==
    \A u \in Users :
        LET once == ensure_user_record(users, u)
        IN  /\ ensure_user_record(once, u) = once
            /\ DOMAIN once = DOMAIN users \cup {u}
            /\ u \in DOMAIN users => once = users
            /\ u \notin DOMAIN users =>
                  /\ once[u].credits = 0
                  /\ ~once[u].trial_claimed
                  /\ ~once[u].trial_active
            /\ \A w \in DOMAIN users \ {u} : once[w] = users[w]

\* One account is absent and another has a record that is not the default.
C23_AbsentAndSettledAccounts ==
    /\ \E u \in Users : u \notin DOMAIN users
    /\ \E w \in DOMAIN users :
          users[w].trial_claimed /\ users[w].trial_active /\ users[w].credits > 0


\* ------------------------------------------------------------ storage claims
\* C24: a write that fails changes nothing of what the operation does: a
\* reaction handled while the protection file cannot be written leaves, for
\* every later read, the document a successful write would have left.
C24_FailedWriteKeepsMutation ==
    [][\A u \in Users, torn \in BOOLEAN :
          on_raw_reaction_add_unsaved(u, purge.message_id, torn) =>
              protected' = {r \in protected : r.user_id # u}
                             \cup {[user_id |-> u, expires_at |-> now + ProtectPeriod]}]_vars


\* ------------------------------------------------ giveaway failure claims
\* C25: when the rallying message cannot be fetched the finalize task removes
\* the giveaway, changes no account and ends; a record once removed does not
\* come back, and no task goes on to a fetch for a giveaway that has none.
C25_UnreachableMessageEndsGiveaway ==
    [][/\ \A i \in DOMAIN gtasks :
            /\ (\E r \in BOOLEAN : GwFetched(i, FALSE, r)) =>
                  /\ gtasks[i].gid \notin DOMAIN giveaways'
                  /\ users' = users
                  /\ gtasks'[i].pc = "done"
            /\ (GwStart(i) /\ gtasks'[i].pc = "fetch") =>
                  gtasks[i].gid \in DOMAIN giveaways
            /\ gtasks[i].pc = "done" => gtasks'[i].pc = "done"
       /\ \A g \in DOMAIN giveaways' : g \in DOMAIN giveaways \/ g >= nextMsg]_vars

\* A finalize task ended at the fetch: the record was read, no message came.
C25_EndedAtFetch ==
    \E i \in DOMAIN gtasks :
        /\ gtasks[i].pc = "done" /\ ~gtasks[i].msg /\ gtasks[i].amount # 0
        /\ gtasks[i].gid \notin DOMAIN giveaways
        /\ \A u \in DOMAIN users : users[u].credits = 0


\* C26: a finalize task that found its record and has ended, in whatever way
\* its calls to the platform turned out, has removed the record.
C26_EndedFinalizeRemovedRecord ==
    \A i \in DOMAIN gtasks :
        (gtasks[i].pc \in {"done", "failed"} /\ gtasks[i].amount # 0) =>
            gtasks[i].gid \notin DOMAIN giveaways


\* ------------------------------------------------------------- sweep claims
\* The step in which the sweep of task i reaches its end.
SweepFinishes(i) ==
    \/ PurgeSweepBegin(i) /\ Len(ptasks') = Len(ptasks)
    \/ (DeferredWake(i) \/ SweepStep(i)) /\ Len(ptasks') < Len(ptasks)

\* C27: in the state right after a sweep finishes, immediate or deferred, the
\* window's active flag is false.
C27_SweepEndClearsActive ==
    [][\A i \in DOMAIN ptasks : SweepFinishes(i) => ~purge'.active]_vars


\* -------------------------------------------------------- trial start claim
\* C28: a claim or a grant that succeeds adds exactly one resource, owned by
\* the account, with status trial and trial_expires = now + TrialPeriod, and
\* leaves the others as they are; it sets the account's trial_claimed and
\* trial_active, adds TrialCredits to its credits, and creates exactly one
\* expiry task, for the new id and that deadline.
C28_StartTrialEffect ==
    [][\A u \in Users :
          (ClaimClick(u) \/ (GrantConfirm(u) /\ reply' = "granted")) =>
              \E n \in DOMAIN vps' \ DOMAIN vps :
                  /\ DOMAIN vps' = DOMAIN vps \cup {n}
                  /\ \A v \in DOMAIN vps : vps'[v] = vps[v]
                  /\ vps'[n].owner = u
                  /\ vps'[n].status = "trial"
                  /\ vps'[n].trial_expires = now + TrialPeriod
                  /\ users'[u].trial_claimed /\ users'[u].trial_active
                  /\ users'[u].credits = Credits(users, u) + TrialCredits
                  /\ \A w \in DOMAIN users \ {u} : users'[w] = users[w]
                  /\ timers' = timers (+) One([vid |-> n, end_ts |-> now + TrialPeriod,
                                               owner |-> u])]_vars

\* A trial just started: the resource, the flags, the bonus and the task.
C28_TrialJustGranted ==
    /\ reply = "granted"
    /\ \E n \in DOMAIN vps :
          /\ vps[n].status = "trial"
          /\ vps[n].trial_expires = now + TrialPeriod
          /\ users[vps[n].owner].trial_active
          /\ users[vps[n].owner].credits = TrialCredits
          /\ BagIn([vid |-> n, end_ts |-> now + TrialPeriod, owner |-> vps[n].owner],
                   timers)


\* ------------------------------------------------------------- expiry claim
\* C30: trial expiry removes a trial resource only at or after that resource's
\* own trial_expires, also where the id was given out before to a trial that
\* was deleted.
C30_NoExpiryBeforeDeadline ==
    [][\A t \in BagToSet(timers) :
          TimerFire(t) =>
              \A v \in DOMAIN vps \ DOMAIN vps' :
                  vps[v].trial_expires # 0 => vps[v].trial_expires <= now]_vars


\* ------------------------------------------------------- provisioning claim
\* C29: a step of a provisioning task changes nothing but provisioning
\* metadata, and only that of the resource the task was started for: the set
\* of resource ids, every resource's owner, status and trial_expires and every
\* account stay as they are, and a resource deleted meanwhile stays deleted.
C29_ProvisioningWritesOwnMetadata ==
    [][\A i \in DOMAIN prov.tasks :
          ProvStep(i) =>
              /\ vps' = vps
              /\ users' = users
              /\ \A s \in DOMAIN prov.meta :
                    prov'.meta[s] # prov.meta[s] => s = prov.tasks[i].for]_vars


\* --------------------------------------------------- expiry target claim
\* C31: a trial-expiry timer removes only trial resources; a resource that
\* never had status trial or a trial deadline is not removed by one.
C31_ExpiryDeletesOnlyTrials ==
    [][\A t \in BagToSet(timers) :
          TimerFire(t) =>
              \A v \in DOMAIN vps \ DOMAIN vps' :
                  vps[v].status = "trial" \/ vps[v].trial_expires # 0]_vars


\* ------------------------------------------------------- double-arm claim
\* C32: callers never double-arm: at any time at most one expiry task is
\* pending per resource id, and at most one finalize task is pending (still in
\* its sleep) per giveaway id.
C32_OnePendingPerId ==
    /\ \A t1, t2 \in BagToSet(timers) :
          t1.vid = t2.vid => t1 = t2 /\ CopiesIn(t1, timers) = 1
    /\ \A g \in DOMAIN giveaways :
          Cardinality({i \in DOMAIN gtasks :
                          gtasks[i].gid = g /\ gtasks[i].pc = "start"}) <= 1


\* ------------------------------------------------ expiry against deletion
\* C33: however a trial's expiry and the deletion of its resource by command
\* interleave, once the expiry task has run the resource is absent, no other
\* resource was removed by it, and the trial_active flag of the account the
\* trial was started for is false.
C33_ExpiryAndDeletionSettle ==
    [][\A t \in BagToSet(timers) :
          TimerFire(t) =>
              /\ t.vid \notin DOMAIN vps'
              /\ DOMAIN vps \ DOMAIN vps' \subseteq {t.vid}
              /\ ~users'[t.owner].trial_active]_vars


\* ------------------------------------------------ suspended sweep claim
\* The protection a sweep of the given kind looks at (the immediate sweep
\* reads the explicit lists only), on the lists and records as they are now.
ProtectedNow(kind, v, o) ==
    IF kind = "start"
    THEN v \in purge.protected_vps \/ o \in purge.protected_users
    ELSE isProtected(v, o)

\* C34: a sweep resumed after the log call of a deletion deletes only what is
\* unprotected then: every resource it removes is unprotected on its current
\* owner and the current protection lists and records, a resource protected
\* while the sweep was suspended included.
C34_ResumedSweepSparesProtected ==
    [][\A i \in DOMAIN ptasks :
          SweepStep(i) =>
              \A v \in DOMAIN vps \ DOMAIN vps' :
                  ~ProtectedNow(ptasks[i].kind, v, vps[v].owner)]_vars


\* --------------------------------------------------------- durability claim
\* C36: no write failing, whenever control is with the event loop (every
\* handler and task is at an await or done) each document on disk equals the
\* map in memory, so a crash then loses no mutation made.
C36_DiskEqualsMemory ==
    /\ disk.users = users
    /\ disk.vps = vps
    /\ disk.purge = purge
    /\ disk.giveaways = giveaways


\* ------------------------------------------------------ notification claim
\* C35: the owner's notification at trial expiry is best effort.  When the
\* resolver suspends for it the resource is deleted, the owner's trial_active
\* is false and both documents are written; whether the fetch and the send
\* succeed or fail, the steps that follow change no account, no resource and
\* no document, and the resolver runs to its end.
C35_NotificationLeavesState ==
    [][/\ \A t \in BagToSet(timers) :
            (TimerFire(t) /\ t.vid \in DOMAIN vps) =>
                /\ t.vid \notin DOMAIN vps'
                /\ ~users'[vps[t.vid].owner].trial_active
                /\ disk'.vps = vps' /\ disk'.users = users'
                /\ Len(notices'.q) = Len(notices.q) + 1
       /\ \A i \in DOMAIN notices.q :
            /\ \A ok \in BOOLEAN :
                  (NotifyFetched(i, ok) \/ NotifySent(i, ok)) =>
                      /\ vps' = vps /\ users' = users /\ disk' = disk
                      /\ notices'.q[i].pc \in {"send", "log"}
            /\ NotifyLogged(i) =>
                  /\ vps' = vps /\ users' = users /\ disk' = disk
                  /\ Len(notices'.q) = Len(notices.q) - 1]_vars

\* A resolver is at its log call after a send that failed: the resource is
\* gone, the owner's trial is over, and the documents hold both.
C35_FailedSendStateKept ==
    \E i \in DOMAIN notices.q :
        /\ notices.q[i].pc = "log" /\ ~notices.q[i].sent
        /\ notices.q[i].vid \notin DOMAIN vps
        /\ ~users[notices.q[i].owner].trial_active
        /\ disk.vps = vps /\ disk.users = users


\* ---------------------------------------------------------- purgestop claim
\* C37: purgestop sets purge.active to false and changes nothing else: the
\* resources, both explicit lists, the announcement's id, start_ts, end_ts and
\* the ProtectionRecords stay, and so does every armed deferred sweep, which
\* runs at its window's end whatever the flag says.
C37_StopClearsActiveOnly ==
    /\ [](\A i \in DOMAIN ptasks :
            (ptasks[i].kind = "deferred" /\ ptasks[i].pc = "sleep"
                /\ now >= ptasks[i].wake) => ENABLED DeferredWake(i))
    /\ [][purge_stop =>
            /\ purge' = [purge EXCEPT !.active = FALSE]
            /\ vps' = vps /\ users' = users
            /\ protected' = protected
            /\ ptasks' = ptasks]_vars

\* The window was stopped while the handler's own sweep was still under way,
\* and the deferred sweep is armed as before.
C37_StoppedWithSweepArmed ==
    /\ ~purge.active
    /\ \E i \in DOMAIN ptasks : ptasks[i].kind = "start" /\ ptasks[i].pc = "sweep"
    /\ \E i \in DOMAIN ptasks :
          /\ ptasks[i].kind = "deferred" /\ ptasks[i].pc = "sleep"
          /\ ptasks[i].wake = purge.end_ts


\* ------------------------------------------------------------ transfer claim
\* The balance the credit commands read: an account without a record has 0.
Balance(db, x) == IF x \in DOMAIN db THEN db[x].credits ELSE 0

RECURSIVE TotalCredits(_, _)
TotalCredits(db, S) ==
    IF S = {} THEN 0
    ELSE LET x == CHOOSE y \in S : TRUE
         IN  Balance(db, x) + TotalCredits(db, S \ {x})

\* C38: transfer conserves credits.  With amount > 0 and no more than the
\* sender's balance, the sender has amount less and another receiver amount
\* more, a sender paying themselves has what they had, every other balance
\* stays and so does the sum; with amount <= 0 or more than the sender's
\* balance no balance changes.
C38_TransferConserves ==
    [][\A u \in Users, t \in Users, a \in Deltas :
          transfer(u, t, a) =>
              /\ TotalCredits(users', Users) = TotalCredits(users, Users)
              /\ \A x \in Users \ {u, t} : Balance(users', x) = Balance(users, x)
              /\ IF a > 0 /\ a <= Balance(users, u) /\ u # t
                 THEN /\ Balance(users', u) = Balance(users, u) - a
                      /\ Balance(users', t) = Balance(users, t) + a
                 ELSE /\ Balance(users', u) = Balance(users, u)
                      /\ Balance(users', t) = Balance(users, t)]_vars

\* An account holds the credits a transfer needs, to itself or to another.
C38_TransferPossible ==
    \E u \in DOMAIN users, t \in Users :
        /\ users[u].credits >= BasicCost
        /\ ENABLED transfer(u, t, BasicCost)
        /\ ENABLED transfer(u, u, BasicCost)


\* ---------------------------------------------------------- maintenance claim
\* C39: while the maintenance flag is true no step adds a resource and no step
\* takes a resource to status active.
C39_MaintenanceFreezes ==
    [][(maintenance /\ maintenance') =>
           /\ DOMAIN vps' \subseteq DOMAIN vps
           /\ \A v \in DOMAIN vps' :
                  vps'[v].status = "active" => vps[v].status = "active"]_vars

=============================================================================
